---- MODULE Spec2Model ----
(***************************************************************************)
(* darker.utils: get_path_ancestry and get_common_root.                    *)
(*                                                                         *)
(* A resolved (absolute, canonical) path is a non-empty sequence of        *)
(* strings: the filesystem root (a drive) followed by the path segments.   *)
(* A path as the caller gives it is a record: an anchor (a root, or        *)
(* NoAnchor for a relative path) and its segments.                         *)
(***************************************************************************)
EXTENDS Naturals, Sequences, FiniteSets

\* Bounds of the model.
MaxParts == 2       \* segments of a path given by a caller
MaxPaths == 2       \* paths in one collection

Roots == {"C:", "D:"}
Names == {"a", "b"}
NoAnchor == "."
Callers == {"A", "B"}

SeqsUpTo(S, n) == UNION {[1..k -> S] : k \in 0..n}

InputPaths == [anchor : Roots \cup {NoAnchor}, parts : SeqsUpTo(Names, MaxParts)]
Collections == SeqsUpTo(InputPaths, MaxPaths)

\* The filesystem the calls run on: the directories that may exist. A
\* directory exists only if its parent does; the drive of the working
\* directory exists.
DirTree == {<<"C:">>, <<"C:", "a">>, <<"C:", "a", "a">>, <<"D:">>, <<"D:", "a">>}
SymlinkAt == <<"C:", "b">>
SymlinkTarget == <<"C:", "a">>

VARIABLES
    dirs,            \* the resolved paths that are directories (Path.is_dir)
    callers,         \* the callers that invoke get_common_root
    paths,           \* per caller: the argument of get_common_root
    resolved_paths,  \* per caller: the local list of line 70
    ancestries,      \* per caller: the chains get_path_ancestry returned
    parents,         \* per caller: the local reversed zip of line 71
    result,          \* per caller: the outcome of the call
    pc               \* per caller: the position in get_common_root

vars == <<dirs, callers, paths, resolved_paths, ancestries, parents, result, pc>>

----------------------------------------------------------------------------
\* pathlib and the filesystem

\* PurePath.parent: the root is its own parent.
Parent(p) == IF Len(p) = 1 THEN p ELSE SubSeq(p, 1, Len(p) - 1)

\* PurePath.parents: the ancestors, nearest first; none for a root.
PathParents(p) == [k \in 1..(Len(p) - 1) |-> SubSeq(p, 1, Len(p) - k)]

NotReversed(s) == s

\* reversed(...)
Reversed(s) == [k \in 1..Len(s) |-> s[Len(s) + 1 - k]]

\* Path.is_dir(): false for a file and for a path that does not exist.
IsDir(p) == p \in dirs

FileSystems ==
    {S \in SUBSET DirTree : <<"C:">> \in S /\ \A d \in S : Parent(d) \in S}

\* os.getcwd(), which Path.resolve() joins a relative path to.
Cwd == IF <<"C:", "a">> \in dirs THEN <<"C:", "a">> ELSE <<"C:">>

FollowLink(q) == IF q = SymlinkAt THEN SymlinkTarget ELSE q

RECURSIVE Walk(_, _)
Walk(cur, parts) ==
    IF parts = <<>> THEN cur
    ELSE Walk(FollowLink(Append(cur, Head(parts))), Tail(parts))

\* Path.resolve(): absolute against the working directory, symlinks
\* followed segment by segment; it does not require the path to exist.
Resolve(path) ==
    Walk(IF path.anchor = NoAnchor THEN Cwd ELSE <<path.anchor>>, path.parts)

----------------------------------------------------------------------------
\* get_path_ancestry

AncestryWithoutSelf(path) == Reversed(PathParents(path))

AncestryWithSelf(path) == Reversed(PathParents(path)) \o <<path>>

GetPathAncestry(path) ==
    IF IsDir(path)
    THEN Reversed(PathParents(path)) \o <<path>>
    ELSE Reversed(PathParents(path))

----------------------------------------------------------------------------
\* get_common_root

Pending == [status |-> "pending", path |-> <<>>]
Returned(p) == [status |-> "returned", path |-> p]
ValueError == [status |-> "ValueError", path |-> <<>>]

MinLen(chains) ==
    CHOOSE m \in {Len(chains[i]) : i \in 1..Len(chains)} :
        \A i \in 1..Len(chains) : m <= Len(chains[i])

\* zip(*chains): tuples of the elements at one position, as many as the
\* shortest chain has; none when there are no chains.
Zip(chains) ==
    IF Len(chains) = 0 THEN <<>>
    ELSE [k \in 1..MinLen(chains) |-> [i \in 1..Len(chains) |-> chains[i][k]]]

ZipNotReversed(chains) == Zip(chains)

\* reversed(list(zip(...)))
ZipReversed(chains) == Reversed(Zip(chains))

AlwaysEqual(tuple) == TRUE

\* first_path, *other_paths = tuple; all(path == first_path ...)
AllEqual(tuple) == \A i \in 2..Len(tuple) : tuple[i] = tuple[1]

\* the for loop: the first tuple whose elements are all equal, else ValueError
RECURSIVE FirstAgreeing(_)
FirstAgreeing(tuples) ==
    IF tuples = <<>> THEN ValueError
    ELSE IF AllEqual(Head(tuples)) THEN Returned(Head(tuples)[1])
    ELSE FirstAgreeing(Tail(tuples))

\* The whole call.
GetCommonRoot(ps) ==
    FirstAgreeing(ZipReversed(
        [i \in 1..Len(ps) |-> GetPathAncestry(Resolve(ps[i]))]))

SharedResolved(c) == resolved_paths[CHOOSE d \in callers : pc[d] # "call"]

\* The caller's own local resolved_paths.
LocalResolved(c) == resolved_paths[c]

----------------------------------------------------------------------------
\* Specifications

InitLocals ==
    /\ resolved_paths = [c \in Callers |-> <<>>]
    /\ ancestries = [c \in Callers |-> <<>>]
    /\ parents = [c \in Callers |-> <<>>]
    /\ result = [c \in Callers |-> Pending]
    /\ pc = [c \in Callers |-> "call"]

\* One caller, any collection of paths.
Init ==
    /\ dirs \in FileSystems
    /\ callers = {"A"}
    /\ \E ps \in Collections : paths = [c \in Callers |-> IF c = "A" THEN ps ELSE <<>>]
    /\ InitLocals

ConcPaths == {p \in InputPaths : Len(p.parts) <= 1 /\ p.anchor # "D:"}
ConcCollections ==
    {<<p>> : p \in ConcPaths} \cup {<<p, q>> : p \in ConcPaths, q \in ConcPaths}

\* Two independent callers.
InitConc ==
    /\ dirs \in FileSystems
    /\ callers = Callers
    /\ paths \in [Callers -> ConcCollections]
    /\ InitLocals

\* line 70
ResolveStep(c) ==
    /\ pc[c] = "call"
    /\ resolved_paths' = [resolved_paths EXCEPT
           ![c] = [i \in 1..Len(paths[c]) |-> Resolve(paths[c][i])]]
    /\ pc' = [pc EXCEPT ![c] = "resolved"]
    /\ UNCHANGED <<dirs, callers, paths, ancestries, parents, result>>

\* line 71
AncestryStep(c) ==
    /\ pc[c] = "resolved"
    /\ LET chains == [i \in 1..Len(LocalResolved(c)) |->
                         GetPathAncestry(LocalResolved(c)[i])]
       IN /\ ancestries' = [ancestries EXCEPT ![c] = chains]
          /\ parents' = [parents EXCEPT ![c] = ZipReversed(chains)]
    /\ pc' = [pc EXCEPT ![c] = "zipped"]
    /\ UNCHANGED <<dirs, callers, paths, resolved_paths, result>>

\* lines 72-74
Return(c) ==
    /\ pc[c] = "zipped"
    /\ FirstAgreeing(parents[c]) # ValueError
    /\ result' = [result EXCEPT ![c] = FirstAgreeing(parents[c])]
    /\ pc' = [pc EXCEPT ![c] = "done"]
    /\ UNCHANGED <<dirs, callers, paths, resolved_paths, ancestries, parents>>

\* line 75
Raise(c) ==
    /\ pc[c] = "zipped"
    /\ FirstAgreeing(parents[c]) = ValueError
    /\ result' = [result EXCEPT ![c] = ValueError]
    /\ pc' = [pc EXCEPT ![c] = "done"]
    /\ UNCHANGED <<dirs, callers, paths, resolved_paths, ancestries, parents>>

Next ==
    \E c \in callers :
        \/ ResolveStep(c)
        \/ AncestryStep(c)
        \/ Return(c)
        \/ Raise(c)

Spec == Init /\ [][Next]_vars

SpecConc == InitConc /\ [][Next]_vars

----------------------------------------------------------------------------
\* Vocabulary of the properties

Done(c) == c \in callers /\ pc[c] = "done"
Enumerated(c) == c \in callers /\ pc[c] \in {"zipped", "done"}
Inputs(c) == 1..Len(paths[c])

IsAncestorOrEqual(r, p) == Len(r) <= Len(p) /\ SubSeq(p, 1, Len(r)) = r
IsStrictAncestor(r, p) == Len(r) < Len(p) /\ SubSeq(p, 1, Len(r)) = r
Prefixes(p) == {SubSeq(p, 1, k) : k \in 1..Len(p)}
RootOf(p) == <<p[1]>>

\* q is one of the directories leading to p: a strict ancestor, or p itself
\* when p is a directory.
LeadsTo(q, p) == IsStrictAncestor(q, p) \/ (q = p /\ IsDir(p))

\* The paths that lead to every resolved input of caller c.
CommonLeading(c) ==
    {q \in UNION {Prefixes(resolved_paths[c][i]) : i \in Inputs(c)} :
        \A i \in Inputs(c) : LeadsTo(q, resolved_paths[c][i])}

SameRoot(c) ==
    \A i \in Inputs(c), j \in Inputs(c) :
        resolved_paths[c][i][1] = resolved_paths[c][j][1]

\* A filesystem root that is not a directory (a drive that is not there).
NonDirRoot(p) == Len(p) = 1 /\ ~IsDir(p)
NoNonDirRoot(c) == \A i \in Inputs(c) : ~NonDirRoot(resolved_paths[c][i])

\* R answers the contract of the common root for caller c.
IsDeepestCommon(c, R) ==
    /\ \A i \in Inputs(c) : IsAncestorOrEqual(R, resolved_paths[c][i])
    /\ \A q \in CommonLeading(c) : Len(q) <= Len(R)
    /\ (\A q \in CommonLeading(c) : Len(q) = 1) => Len(R) = 1

\* The path R as a caller would pass it.
AsInput(R) == [anchor |-> R[1], parts |-> Tail(R)]

Permutations(n) == {f \in [1..n -> 1..n] : \A i, j \in 1..n : f[i] = f[j] => i = j}

----------------------------------------------------------------------------
\* C1 as stated: for every non-empty collection of paths that resolve under
\* one root, get_common_root returns a path that is an ancestor of (or equal
\* to) every resolved input and that no common path of the chains is deeper
\* than; it is the root when nothing below the root is shared.
C1_AsStated ==
    \A c \in callers :
        (Done(c) /\ Len(paths[c]) > 0 /\ SameRoot(c)) =>
            /\ result[c].status = "returned"
            /\ IsDeepestCommon(c, result[c].path)

\* C1 as amended: the same, for the collections in which no input resolves
\* to a filesystem root that is not a directory.
C1_DeepestCommonAncestor ==
    \A c \in callers :
        (Done(c) /\ Len(paths[c]) > 0 /\ SameRoot(c) /\ NoNonDirRoot(c)) =>
            /\ result[c].status = "returned"
            /\ IsDeepestCommon(c, result[c].path)

C1_Witness ==
    /\ Done("A") /\ Len(paths["A"]) = 2
    /\ Len(resolved_paths["A"][1]) = 3 /\ Len(resolved_paths["A"][2]) = 3
    /\ resolved_paths["A"][1] # resolved_paths["A"][2]
    /\ result["A"].status = "returned" /\ Len(result["A"].path) = 2

\* C2 as stated: whenever get_common_root(paths) returns R, whether or not R
\* exists, get_common_root([R]) returns R.
C2_AsStated ==
    \A c \in callers :
        (Done(c) /\ result[c].status = "returned") =>
            GetCommonRoot(<<AsInput(result[c].path)>>) = Returned(result[c].path)

\* C2 as amended: whenever get_common_root(paths) returns R and R is a
\* directory, get_common_root([R]) returns R.
C2_IdempotentOnDirectories ==
    \A c \in callers :
        (Done(c) /\ result[c].status = "returned" /\ IsDir(result[c].path)) =>
            GetCommonRoot(<<AsInput(result[c].path)>>) = Returned(result[c].path)

C2_Witness ==
    /\ Done("A") /\ Len(paths["A"]) = 2
    /\ result["A"].status = "returned"
    /\ IsDir(result["A"].path) /\ Len(result["A"].path) = 2
    /\ \A i \in Inputs("A") : resolved_paths["A"][i] # result["A"].path
    /\ GetCommonRoot(<<AsInput(result["A"].path)>>) = Returned(result["A"].path)

\* C3 as stated: whenever get_common_root returns a path, is_dir holds for
\* it, for every input collection.
C3_AsStated ==
    \A c \in callers :
        (Done(c) /\ result[c].status = "returned") => IsDir(result[c].path)

\* C3 as amended: whenever get_common_root returns a path and at least one
\* resolved input is a directory or has a directory as its parent, is_dir
\* holds for the returned path.
C3_ReturnsDirectory ==
    \A c \in callers :
        (/\ Done(c) /\ result[c].status = "returned"
         /\ \E i \in Inputs(c) : \/ IsDir(resolved_paths[c][i])
                                 \/ IsDir(Parent(resolved_paths[c][i]))) =>
            IsDir(result[c].path)

C3_Witness ==
    /\ Done("A") /\ Len(paths["A"]) = 2
    /\ ~IsDir(resolved_paths["A"][1]) /\ ~IsDir(Parent(resolved_paths["A"][1]))
    /\ ~IsDir(resolved_paths["A"][2]) /\ IsDir(Parent(resolved_paths["A"][2]))
    /\ result["A"].status = "returned"
    /\ IsDir(result["A"].path) /\ Len(result["A"].path) = 2

\* C4: get_common_root is order-independent: every permutation of the
\* collection has the outcome the call had (the same path, or the same
\* failure).
C4_OrderIndependent ==
    \A c \in callers :
        Done(c) =>
            \A f \in Permutations(Len(paths[c])) :
                GetCommonRoot([i \in Inputs(c) |-> paths[c][f[i]]]) = result[c]

C4_Witness ==
    /\ Done("A") /\ Len(paths["A"]) = 2
    /\ Len(ancestries["A"][1]) < Len(ancestries["A"][2])
    /\ result["A"].status = "returned" /\ Len(result["A"].path) = 2
    /\ GetCommonRoot(<<paths["A"][2], paths["A"][1]>>) = result["A"]

\* C5 as stated: for every single path P, get_common_root([P]) returns the
\* resolved P when it is a directory and its parent otherwise.
C5_AsStated ==
    \A c \in callers :
        (Done(c) /\ Len(paths[c]) = 1) =>
            result[c] = Returned(IF IsDir(resolved_paths[c][1])
                                 THEN resolved_paths[c][1]
                                 ELSE Parent(resolved_paths[c][1]))

\* C5 as amended: the same for every single path P that does not resolve to
\* a filesystem root that is not a directory; for such a root the call fails
\* with the no-common-root error.
C5_SinglePath ==
    \A c \in callers :
        (Done(c) /\ Len(paths[c]) = 1) =>
            result[c] = IF NonDirRoot(resolved_paths[c][1])
                        THEN ValueError
                        ELSE Returned(IF IsDir(resolved_paths[c][1])
                                      THEN resolved_paths[c][1]
                                      ELSE Parent(resolved_paths[c][1]))

C5_Witness ==
    /\ Done("A") /\ Len(paths["A"]) = 1
    /\ Len(resolved_paths["A"][1]) = 3 /\ ~IsDir(resolved_paths["A"][1])
    /\ result["A"] = Returned(Parent(resolved_paths["A"][1]))

\* C6 as stated: for a non-empty collection the call fails with the
\* no-common-root error exactly when no position is shared by all chains,
\* and never when the inputs resolve under one root.
C6_AsStated ==
    \A c \in callers :
        (Done(c) /\ Len(paths[c]) > 0) =>
            /\ result[c] = ValueError <=> CommonLeading(c) = {}
            /\ SameRoot(c) => result[c] # ValueError

\* C6 as amended: for a non-empty collection the call either returns one
\* path or fails with the no-common-root error; it fails exactly when no
\* position is shared by all chains, which is when the inputs resolve under
\* different roots or one of them resolves to a filesystem root that is not
\* a directory.
C6_NoCommonRootError ==
    \A c \in callers :
        (Done(c) /\ Len(paths[c]) > 0) =>
            /\ result[c] = ValueError \/ result[c].status = "returned"
            /\ result[c] = ValueError <=> CommonLeading(c) = {}
            /\ result[c] = ValueError <=> (~SameRoot(c) \/ ~NoNonDirRoot(c))

C6_Witness ==
    /\ Done("A") /\ Len(paths["A"]) = 2
    /\ resolved_paths["A"][1][1] # resolved_paths["A"][2][1]
    /\ \A i \in Inputs("A") : IsDir(resolved_paths["A"][i])
    /\ result["A"] = ValueError

\* C7: an input that is not a directory is never returned: the returned
\* path is a strict ancestor of every resolved input for which is_dir is
\* false.
C7_NonDirectoryNeverReturned ==
    \A c \in callers :
        (Done(c) /\ result[c].status = "returned") =>
            \A i \in Inputs(c) :
                ~IsDir(resolved_paths[c][i]) =>
                    IsStrictAncestor(result[c].path, resolved_paths[c][i])

C7_Witness ==
    /\ Done("A") /\ Len(paths["A"]) = 2
    /\ resolved_paths["A"][1] = resolved_paths["A"][2]
    /\ ~IsDir(resolved_paths["A"][1]) /\ Len(resolved_paths["A"][1]) = 3
    /\ result["A"] = Returned(Parent(resolved_paths["A"][1]))

\* C8: under every interleaving of the steps of the calls of independent
\* callers, each call has the outcome it has when run alone.
C8_NoInterference ==
    \A c \in callers : Done(c) => result[c] = GetCommonRoot(paths[c])

C8_Witness ==
    /\ callers = Callers
    /\ Done("A") /\ pc["B"] = "resolved"
    /\ resolved_paths["A"] # resolved_paths["B"]
    /\ result["A"].status = "returned" /\ Len(result["A"].path) = 2

\* The walk of the reversed chains in lockstep, aligned at their leaf ends.
LeafAlignedScan(chains) ==
    FirstAgreeing(Zip([i \in 1..Len(chains) |-> Reversed(chains[i])]))

\* Aligned at the root and scanned forward: the element at the last position
\* up to which all chains still match.
MatchingUpTo(chains) ==
    IF Len(chains) = 0 THEN {}
    ELSE {k \in 1..MinLen(chains) :
            \A j \in 1..k : \A i \in 1..Len(chains) : chains[i][j] = chains[1][j]}

RootAlignedScan(chains) ==
    IF MatchingUpTo(chains) = {} THEN ValueError
    ELSE Returned(chains[1][Cardinality(MatchingUpTo(chains))])

SameLengths(chains) ==
    \A i, j \in 1..Len(chains) : Len(chains[i]) = Len(chains[j])

\* C9 as stated: the leaf-aligned walk of the reversed chains and the
\* root-aligned scan are the same, and are what the code computes, for every
\* collection of chains, chains of different lengths included.
C9_AsStated ==
    \A c \in callers :
        Done(c) =>
            /\ LeafAlignedScan(ancestries[c]) = RootAlignedScan(ancestries[c])
            /\ result[c] = LeafAlignedScan(ancestries[c])

\* C9 as amended: the code's zip-then-reverse scan is the root-aligned form
\* for every collection of chains; the leaf-aligned walk of the reversed
\* chains agrees with it when all chains have the same length.
C9_RootAlignedScan ==
    \A c \in callers :
        Done(c) =>
            /\ result[c] = RootAlignedScan(ancestries[c])
            /\ SameLengths(ancestries[c]) =>
                   result[c] = LeafAlignedScan(ancestries[c])

C9_Witness ==
    /\ Done("A") /\ Len(paths["A"]) = 2
    /\ Len(ancestries["A"][1]) = 3 /\ Len(ancestries["A"][2]) = 3
    /\ ancestries["A"][1] # ancestries["A"][2]
    /\ result["A"].status = "returned" /\ Len(result["A"].path) = 2
    /\ result["A"] = LeafAlignedScan(ancestries["A"])

\* The chain ch is the ancestry the claim describes for the resolved path p.
IsAncestryOf(ch, p) ==
    /\ Len(ch) >= 1
    /\ ch[1] = RootOf(p)
    /\ \A k \in 1..(Len(ch) - 1) :
           ch[k] = Parent(ch[k + 1]) /\ Len(ch[k + 1]) = Len(ch[k]) + 1
    /\ ch[Len(ch)] = IF IsDir(p) THEN p ELSE Parent(p)
    /\ Len(p) = 1 => ch = <<p>>

\* C10 as stated: for every absolute path the sequence of get_path_ancestry
\* starts at the root, each element is the direct parent of the next, and it
\* ends at the path if it is a directory and at its parent otherwise; for a
\* root it is the root alone.
C10_AsStated ==
    \A c \in callers :
        Enumerated(c) =>
            \A i \in Inputs(c) : IsAncestryOf(ancestries[c][i], resolved_paths[c][i])

\* C10 as amended: the same for every absolute path other than a filesystem
\* root that is not a directory, whose sequence is empty.
C10_AncestryChain ==
    \A c \in callers :
        Enumerated(c) =>
            \A i \in Inputs(c) :
                IF NonDirRoot(resolved_paths[c][i])
                THEN ancestries[c][i] = <<>>
                ELSE IsAncestryOf(ancestries[c][i], resolved_paths[c][i])

C10_Witness ==
    /\ Enumerated("A") /\ Len(paths["A"]) = 1
    /\ IsDir(resolved_paths["A"][1])
    /\ Len(ancestries["A"][1]) = 3
    /\ ancestries["A"][1][3] = resolved_paths["A"][1]

====
